---- MODULE Spec2Model ----
(***************************************************************************)
(* Model of the TiDB vector-store adapter (mem0/vector_stores/tidb.py).    *)
(*                                                                         *)
(* The adapter owns one connection and one cursor and maps one collection  *)
(* to one table (id, vector JSON, payload JSON).  The database is reached  *)
(* through pymysql with autocommit on; every statement is atomic.          *)
(*                                                                         *)
(* Python values are tagged records ([t |-> "str", s |-> ..]), JSON        *)
(* documents are records tagged with jt, and SQL NULL is its own value, so *)
(* json.dumps / json.loads / str() are real conversions between distinct   *)
(* universes.                                                              *)
(***************************************************************************)
EXTENDS Integers, Sequences, FiniteSets, TLC

VARIABLES pc, conn, cur, tables, columns, rows, last

vars == <<pc, conn, cur, tables, columns, rows, last>>

(***************************************************************************)
(* Bounds of the model.                                                    *)
(***************************************************************************)
MaxBatch == 3
MaxLimit == 2

(***************************************************************************)
(* Configuration (mem0/configs/vector_stores/tidb.py).                     *)
(***************************************************************************)
collection_name == "mem0"
embedding_model_dims == 1536

(***************************************************************************)
(* Python values.                                                          *)
(***************************************************************************)
None == [t |-> "NoneType"]
PyStrVal(s) == [t |-> "str", s |-> s]
PyInt(n) == [t |-> "int", n |-> n]
PyDict(f) == [t |-> "dict", items |-> f]
PyList(v) == [t |-> "list", elems |-> v]
EmptyDict == PyDict([k \in {} |-> None])

\* str(value) as used on filter values; str() of a str is the str itself
IntText == <<"0", "1", "2", "3", "4", "5", "6", "7", "8", "9">>
PyStr(v) == IF v.t = "str" THEN v.s
            ELSE IF v.t = "int" THEN IntText[v.n + 1]
            ELSE "None"

(***************************************************************************)
(* JSON documents as held in the JSON columns, and SQL NULL.               *)
(***************************************************************************)
SQLNULL == [sql |-> "NULL"]
JNull == [jt |-> "null"]

RECURSIVE json_dumps(_)
json_dumps(x) ==
    CASE x.t = "NoneType" -> JNull
      [] x.t = "str" -> [jt |-> "string", s |-> x.s]
      [] x.t = "int" -> [jt |-> "number", n |-> x.n]
      [] x.t = "list" -> [jt |-> "array", elems |-> [i \in DOMAIN x.elems |-> [jt |-> "number", n |-> x.elems[i]]]]
      [] x.t = "dict" -> [jt |-> "object", members |-> [k \in DOMAIN x.items |-> json_dumps(x.items[k])]]

RECURSIVE json_loads(_)
json_loads(j) ==
    CASE j.jt = "null" -> None
      [] j.jt = "string" -> PyStrVal(j.s)
      [] j.jt = "number" -> PyInt(j.n)
      [] j.jt = "array" -> PyList([i \in DOMAIN j.elems |-> j.elems[i].n])
      [] j.jt = "object" -> PyDict([k \in DOMAIN j.members |-> json_loads(j.members[k])])

\* json.loads(row[2]) if row[2] else {}  -- a fetched JSON text is a
\* non-empty string, so only SQL NULL (Python None) is falsy
decode_payload(col) == IF col = SQLNULL THEN EmptyDict ELSE json_loads(col)

OutputData(id, score, payload) == [id |-> id, score |-> score, payload |-> payload]

(***************************************************************************)
(* Input domains.                                                          *)
(***************************************************************************)
Ids == {"a", "b"}

Vectors == {<<1, 0>>, <<1, 1>>}
Queries == {<<1, 0>>, <<0, 1>>}

Payloads ==
    { EmptyDict,
      PyDict([k \in {"k"} |-> PyStrVal("5")]),
      PyDict([k \in {"k"} |-> PyInt(5)]),
      PyDict([k \in {"k", "j"} |-> IF k = "k" THEN PyStrVal("5") ELSE PyStrVal("x")]) }

Filters ==
    { None,
      PyDict([k \in {"k"} |-> PyStrVal("5")]),
      PyDict([k \in {"k"} |-> PyInt(5)]),
      PyDict([k \in {"k", "j"} |-> IF k = "k" THEN PyStrVal("5") ELSE PyStrVal("x")]) }

(***************************************************************************)
(* The table and the SQL statements the adapter issues.                    *)
(***************************************************************************)
EmptyTable == [i \in {} |-> [vector |-> JNull, payload |-> SQLNULL]]
TableColumns == {"id", "vector", "payload"}
OtherTables == {"other"}

Row(v, p) == [vector |-> json_dumps(PyList(v)), payload |-> json_dumps(p)]
StoredRows == {Row(v, p) : v \in Vectors, p \in Payloads}
TableStates == UNION {[S -> StoredRows] : S \in SUBSET Ids}

Min(a, b) == IF a <= b THEN a ELSE b
InjSeqs(S, n) == {s \in [1..n -> S] : \A i, j \in 1..n : s[i] = s[j] => i = j}

\* primary-key check of one multi-row INSERT statement
PkViolation(r, data) ==
    \/ \E i \in DOMAIN data : data[i][1] \in DOMAIN r
    \/ \E i, j \in DOMAIN data : i # j /\ data[i][1] = data[j][1]

InsertedRows(r, data) ==
    [x \in DOMAIN r \cup {data[i][1] : i \in DOMAIN data} |->
        IF x \in DOMAIN r THEN r[x]
        ELSE LET i == CHOOSE i \in DOMAIN data : data[i][1] = x
             IN  [vector |-> data[i][2], payload |-> data[i][3]]]

\* pymysql's Cursor.max_stmt_length (1,024,000 bytes) counted in value tuples:
\* executemany packs the tuples of an INSERT ... VALUES into statements no
\* longer than that.  About 33 tuples of a 1536-dimension vector fit; scaled
\* down here so that a batch of MaxBatch rows needs more than one statement.
max_stmt_rows == 2

\* cursor.executemany(insert_sql, data): multi-row INSERT statements of at
\* most max_stmt_rows tuples, executed in order on an autocommit connection;
\* each statement is atomic, and the first one that fails raises
RECURSIVE executemany(_, _)
executemany(r, data) ==
    IF data = <<>> THEN [ok |-> TRUE, rows |-> r, stmts |-> 0]
    ELSE LET n == Min(max_stmt_rows, Len(data))
             stmt == SubSeq(data, 1, n)
         IN  IF PkViolation(r, stmt) THEN [ok |-> FALSE, rows |-> r, stmts |-> 1]
             ELSE LET rest == executemany(InsertedRows(r, stmt), SubSeq(data, n + 1, Len(data)))
                  IN  [rest EXCEPT !.stmts = @ + 1]

\* JSON_EXTRACT(payload, '$.key')
JSON_EXTRACT(doc, key) ==
    IF doc = SQLNULL THEN SQLNULL
    ELSE IF doc.jt = "object" /\ key \in DOMAIN doc.members THEN doc.members[key]
    ELSE SQLNULL

\* <json value> = %s with a string parameter: the string is compared as a
\* JSON string; NULL = anything is not true
JsonEqualsParam(j, s) == j # SQLNULL /\ j.jt = "string" /\ j.s = s

\* the WHERE clause built from `filters` (search and list build the same one)
WhereClause(filters, row) ==
    IF filters = None \/ DOMAIN filters.items = {} THEN TRUE
    ELSE \A key \in DOMAIN filters.items :
            JsonEqualsParam(JSON_EXTRACT(row.payload, key), PyStr(filters.items[key]))

Selected(r, filters) == {x \in DOMAIN r : WhereClause(filters, r[x])}

\* VEC_COSINE_DISTANCE of two JSON arrays: the exact value
\* 1 - dot / sqrt(na * nq), kept as its three integer components
Dot(a, b) == LET n == Min(Len(a), Len(b))
                 F[i \in 0..n] == IF i = 0 THEN 0 ELSE F[i - 1] + a[i].n * b[i].n
             IN  F[n]
VEC_COSINE_DISTANCE(a, q) ==
    [t |-> "float", dot |-> Dot(a.elems, q.elems), na |-> Dot(a.elems, a.elems), nq |-> Dot(q.elems, q.elems)]

SignedSquare(x) == IF x >= 0 THEN x * x ELSE 0 - x * x
\* d1 <= d2 as real numbers
DistLeq(d1, d2) == SignedSquare(d1.dot) * (d2.na * d2.nq) >= SignedSquare(d2.dot) * (d1.na * d1.nq)
DistLess(d1, d2) == ~DistLeq(d2, d1)

Distance(r, x, vector_json) == VEC_COSINE_DISTANCE(r[x].vector, vector_json)

\* ORDER BY distance: the orders the database may return (ties in any order)
OrderByDistance(r, S, vector_json) ==
    {s \in InjSeqs(S, Cardinality(S)) :
        \A i, j \in DOMAIN s : i < j => DistLeq(Distance(r, s[i], vector_json), Distance(r, s[j], vector_json))}

\* LIMIT %s
Limit(s, limit) == SubSeq(s, 1, Min(limit, Len(s)))

(***************************************************************************)
(* Observation of the latest call: its arguments, what it returned or      *)
(* raised, and what the cursor reported.                                   *)
(***************************************************************************)
NoCall ==
    [op |-> "", result |-> "ok", failAt |-> "", ready |-> FALSE,
     id |-> "", ids |-> <<>>, idsGiven |-> FALSE,
     vector |-> None, payload |-> None, filters |-> None, limit |-> 0,
     outRec |-> None, outList |-> <<>>, outNames |-> {},
     stmts |-> 0, affected |-> 0, before |-> 0, follows |-> ""]

DataOps == {"insert", "search", "get", "update", "delete", "list"}

TableExists == collection_name \in tables

\* the call found no table: the statement raises and nothing changes
Raises(call) ==
    /\ last' = [call EXCEPT !.result = "error", !.stmts = 1]
    /\ UNCHANGED <<pc, conn, cur, tables, columns, rows>>

(***************************************************************************)
(* Construction and teardown.                                              *)
(***************************************************************************)
\* `if collection_name not in collections` skipped by mistake
NeedsCreateNever(collections) == FALSE

\* __init__: `if collection_name not in collections`
NeedsCreate(collections) == collection_name \notin collections

\* list_cols: SHOW TABLES
list_cols_result == tables

\* `self.conn.close()` nested under the cursor test
DelConnOnlyWithCursor(c, k) == IF k = "open" /\ c = "open" THEN "closed" ELSE c

\* __del__: if hasattr(self, 'conn') and self.conn: self.conn.close()
DelConn(c, k) == IF c = "open" THEN "closed" ELSE c

\* __del__: if hasattr(self, 'cur') and self.cur: self.cur.close()
DelCur(k) == IF k = "open" THEN "closed" ELSE k

FailPoints == {"none", "connect", "cursor", "list_cols", "create_col"}

Construct(failAt) ==
    /\ pc = "unready"
    /\ failAt = "create_col" => NeedsCreate(list_cols_result)
    /\ conn' = IF failAt = "connect" THEN "unset" ELSE "open"
    /\ cur' = IF failAt \in {"connect", "cursor"} THEN "unset" ELSE "open"
    /\ IF failAt = "none"
       THEN /\ pc' = "ready"
            /\ IF NeedsCreate(list_cols_result)
               THEN /\ tables' = tables \cup {collection_name}
                    /\ columns' = TableColumns
                    /\ rows' = EmptyTable
               ELSE UNCHANGED <<tables, columns, rows>>
       ELSE /\ pc' = "failed"
            /\ UNCHANGED <<tables, columns, rows>>
    /\ last' = [NoCall EXCEPT !.op = "__init__",
                              !.result = IF failAt = "none" THEN "ok" ELSE "error",
                              !.failAt = failAt,
                              !.ready = TableExists,
                              !.stmts = IF failAt \in {"connect", "cursor"} THEN 0
                                        ELSE IF NeedsCreate(list_cols_result) /\ failAt # "list_cols" THEN 2
                                        ELSE 1]

Del ==
    /\ pc \in {"ready", "failed"}
    /\ pc' = "destroyed"
    /\ cur' = DelCur(cur)
    /\ conn' = DelConn(conn, cur)
    /\ UNCHANGED <<tables, columns, rows, last>>

(***************************************************************************)
(* Schema operations.                                                      *)
(***************************************************************************)
\* create_col: CREATE TABLE IF NOT EXISTS; vector_size and distance are
\* not used in the statement
create_col(db, vector_size) ==
    IF collection_name \in db.tables THEN db
    ELSE [tables |-> db.tables \cup {collection_name}, columns |-> TableColumns, rows |-> EmptyTable]

\* delete_col: DROP TABLE IF EXISTS
delete_col(db) ==
    [tables |-> db.tables \ {collection_name}, columns |-> {}, rows |-> EmptyTable]

\* reset that forgets to drop
reset_keep(db) == create_col(db, embedding_model_dims)

\* reset: delete_col then create_col(self.embedding_model_dims)
reset(db) == create_col(delete_col(db), embedding_model_dims)

Db == [tables |-> tables, columns |-> columns, rows |-> rows]

SetDb(db) ==
    /\ tables' = db.tables
    /\ columns' = db.columns
    /\ rows' = db.rows

CreateCol ==
    /\ pc = "ready"
    /\ \E vector_size \in {2, embedding_model_dims} : SetDb(create_col(Db, vector_size))
    /\ last' = [NoCall EXCEPT !.op = "create_col", !.ready = TableExists, !.stmts = 1]
    /\ UNCHANGED <<pc, conn, cur>>

DeleteCol ==
    /\ pc = "ready"
    /\ SetDb(delete_col(Db))
    /\ last' = [NoCall EXCEPT !.op = "delete_col", !.ready = TableExists, !.stmts = 1]
    /\ UNCHANGED <<pc, conn, cur>>

Reset ==
    /\ pc = "ready"
    /\ SetDb(reset(Db))
    /\ last' = [NoCall EXCEPT !.op = "reset", !.ready = TableExists, !.stmts = 2,
                              !.before = Cardinality(DOMAIN rows)]
    /\ UNCHANGED <<pc, conn, cur>>

ListCols ==
    /\ pc = "ready"
    /\ last' = [NoCall EXCEPT !.op = "list_cols", !.ready = TableExists, !.stmts = 1,
                              !.outNames = list_cols_result]
    /\ UNCHANGED <<pc, conn, cur, tables, columns, rows>>

(***************************************************************************)
(* Data operations.                                                        *)
(***************************************************************************)
\* payloads defaulting to a list of None
DefaultPayloadNone == None

\* insert: `if payloads is None: payloads = [{}] * len(vectors)`
DefaultPayload == EmptyDict

\* insert: the (id, json.dumps(vector), json.dumps(payload)) tuples
InsertData(ids, v, p) ==
    [i \in DOMAIN ids |-> <<ids[i], json_dumps(PyList(v)), json_dumps(p)>>]

\* the calls made: insert([]), and for n >= 1 vectors = [v] * n with
\* payloads = None or [payload] * n and ids = None or a list of n ids;
\* the batches of several rows use the first three
InsertArgs ==
    << [v |-> <<1, 0>>, payload |-> None, idsGiven |-> FALSE],
       [v |-> <<1, 0>>, payload |-> None, idsGiven |-> TRUE],
       [v |-> <<1, 0>>, payload |-> PyDict([k \in {"k"} |-> PyStrVal("5")]), idsGiven |-> TRUE],
       [v |-> <<1, 1>>, payload |-> PyDict([k \in {"k"} |-> PyInt(5)]), idsGiven |-> TRUE],
       [v |-> <<1, 1>>, payload |-> PyDict([k \in {"k", "j"} |-> IF k = "k" THEN PyStrVal("5") ELSE PyStrVal("x")]),
        idsGiven |-> TRUE] >>

InsertArgsOf(n) == {InsertArgs[i] : i \in 1..(IF n = 1 THEN Len(InsertArgs) ELSE 3)}

\* ids = None: uuid4 strings, distinct and not yet stored
Generated(ids, r) ==
    /\ \A i \in DOMAIN ids : ids[i] \notin DOMAIN r
    /\ \A i, j \in DOMAIN ids : ids[i] = ids[j] => i = j

InsertEmpty ==
    /\ pc = "ready"
    /\ last' = [NoCall EXCEPT !.op = "insert", !.ready = TableExists]
    /\ UNCHANGED <<pc, conn, cur, tables, columns, rows>>

InsertRows ==
    /\ pc = "ready"
    /\ \E n \in 1..MaxBatch :
       \E a \in InsertArgsOf(n), ids \in [1..n -> Ids] :
        LET call == [NoCall EXCEPT !.op = "insert", !.ready = TableExists,
                                   !.ids = ids, !.idsGiven = a.idsGiven, !.payload = a.payload]
            p == IF a.payload = None THEN DefaultPayload ELSE a.payload
            res == executemany(rows, InsertData(ids, a.v, p))
        IN  /\ ~a.idsGiven => Generated(ids, rows)
            /\ IF ~TableExists
               THEN Raises(call)
               ELSE /\ rows' = res.rows
                    /\ last' = [call EXCEPT !.result = IF res.ok THEN "ok" ELSE "error",
                                            !.stmts = res.stmts,
                                            !.affected = Cardinality(DOMAIN res.rows) - Cardinality(DOMAIN rows)]
                    /\ UNCHANGED <<tables, columns>>
    /\ UNCHANGED <<pc, conn, cur>>

\* insert: `if not vectors: return`, else one executemany
Insert == InsertEmpty \/ InsertRows

\* get reading the vector column where it means the payload column
get_output_wrong_column(r, vector_id) ==
    IF vector_id \notin DOMAIN r THEN None
    ELSE OutputData(vector_id, None, decode_payload(r[vector_id].vector))

\* get: fetchone, then None or OutputData(id, None, payload)
get_output(r, vector_id) ==
    IF vector_id \notin DOMAIN r THEN None
    ELSE OutputData(vector_id, None, decode_payload(r[vector_id].payload))

\* get subscripting the fetched row before testing it
get_raises_unsafe(r, vector_id) == vector_id \notin DOMAIN r

\* get raises nothing of its own: `if not result: return None`
get_raises(r, vector_id) == FALSE

Get ==
    /\ pc = "ready"
    /\ \E vector_id \in Ids :
        LET call == [NoCall EXCEPT !.op = "get", !.ready = TableExists, !.id = vector_id,
                        !.follows = IF /\ last.op = "insert" /\ last.result = "ok"
                                       /\ last.ids = <<vector_id>> /\ last.payload # None
                                    THEN "insert" ELSE ""]
        IN  IF ~TableExists \/ get_raises(rows, vector_id)
            THEN Raises(call)
            ELSE /\ last' = [call EXCEPT !.stmts = 1, !.outRec = get_output(rows, vector_id)]
                 /\ UNCHANGED <<tables, columns, rows>>
    /\ UNCHANGED <<pc, conn, cur>>

Delete ==
    /\ pc = "ready"
    /\ \E vector_id \in Ids :
        LET call == [NoCall EXCEPT !.op = "delete", !.ready = TableExists, !.id = vector_id,
                        !.follows = IF last.op = "delete" /\ last.result = "ok" /\ last.id = vector_id
                                    THEN "delete" ELSE ""]
        IN  IF ~TableExists
            THEN Raises(call)
            ELSE /\ rows' = [x \in DOMAIN rows \ {vector_id} |-> rows[x]]
                 /\ last' = [call EXCEPT !.stmts = 1,
                                         !.affected = IF vector_id \in DOMAIN rows THEN 1 ELSE 0]
                 /\ UNCHANGED <<tables, columns>>
    /\ UNCHANGED <<pc, conn, cur>>

\* update setting the payload column unconditionally
SetClauseAlwaysPayload(vector, payload) ==
    (IF vector # None THEN {"vector"} ELSE {}) \cup {"payload"}

\* update: the columns named in the SET clause
SetClause(vector, payload) ==
    (IF vector # None THEN {"vector"} ELSE {}) \cup (IF payload # None THEN {"payload"} ELSE {})

Update ==
    /\ pc = "ready"
    /\ \E vector_id \in Ids, vector \in {None} \cup {PyList(v) : v \in Vectors},
          payload \in {None} \cup Payloads :
        LET call == [NoCall EXCEPT !.op = "update", !.ready = TableExists, !.id = vector_id,
                                   !.vector = vector, !.payload = payload]
            updates == SetClause(vector, payload)
        IN  IF updates = {}
            THEN /\ last' = call
                 /\ UNCHANGED <<tables, columns, rows>>
            ELSE IF ~TableExists
            THEN Raises(call)
            ELSE /\ rows' = [x \in DOMAIN rows |->
                               IF x # vector_id THEN rows[x]
                               ELSE [vector |-> IF "vector" \in updates THEN json_dumps(vector) ELSE rows[x].vector,
                                     payload |-> IF "payload" \in updates THEN json_dumps(payload) ELSE rows[x].payload]]
                 /\ last' = [call EXCEPT !.stmts = 1,
                                         !.affected = IF vector_id \in DOMAIN rows /\ rows'[vector_id] # rows[vector_id]
                                                      THEN 1 ELSE 0]
                 /\ UNCHANGED <<tables, columns>>
    /\ UNCHANGED <<pc, conn, cur>>

\* search: one OutputData per fetched row, score = float(distance)
search_output(r, s, vector_json) ==
    [i \in DOMAIN s |-> OutputData(s[i], Distance(r, s[i], vector_json), decode_payload(r[s[i]].payload))]

Search ==
    /\ pc = "ready"
    /\ \E q \in Queries, limit \in 0..MaxLimit, filters \in Filters :
        LET call == [NoCall EXCEPT !.op = "search", !.ready = TableExists,
                                   !.vector = PyList(q), !.limit = limit, !.filters = filters]
            vector_json == json_dumps(PyList(q))
        IN  IF ~TableExists
            THEN Raises(call)
            ELSE /\ \E s \in OrderByDistance(rows, Selected(rows, filters), vector_json) :
                      last' = [call EXCEPT !.stmts = 1,
                                           !.outList = search_output(rows, Limit(s, limit), vector_json)]
                 /\ UNCHANGED <<tables, columns, rows>>
    /\ UNCHANGED <<pc, conn, cur>>

\* list: one OutputData per fetched row, score = None
list_output(r, s) ==
    [i \in DOMAIN s |-> OutputData(s[i], None, decode_payload(r[s[i]].payload))]

\* no ORDER BY: the database returns the selected rows in any order
List ==
    /\ pc = "ready"
    /\ \E limit \in 0..MaxLimit, filters \in Filters :
        LET call == [NoCall EXCEPT !.op = "list", !.ready = TableExists,
                                   !.limit = limit, !.filters = filters]
            S == Selected(rows, filters)
        IN  IF ~TableExists
            THEN Raises(call)
            ELSE /\ \E s \in InjSeqs(S, Cardinality(S)) :
                      last' = [call EXCEPT !.stmts = 1, !.outList = list_output(rows, Limit(s, limit))]
                 /\ UNCHANGED <<tables, columns, rows>>
    /\ UNCHANGED <<pc, conn, cur>>

(***************************************************************************)
(* Specification.                                                          *)
(***************************************************************************)
Init ==
    /\ pc = "unready"
    /\ conn = "unset"
    /\ cur = "unset"
    /\ \E exists \in BOOLEAN :
        IF exists
        THEN /\ tables = OtherTables \cup {collection_name}
             /\ columns = TableColumns
             /\ rows \in TableStates
        ELSE /\ tables = OtherTables
             /\ columns = {}
             /\ rows = EmptyTable
    /\ last = NoCall

Next ==
    \/ \E failAt \in FailPoints : Construct(failAt)
    \/ Del
    \/ CreateCol
    \/ DeleteCol
    \/ Reset
    \/ ListCols
    \/ Insert
    \/ Get
    \/ Delete
    \/ Update
    \/ Search
    \/ List

Spec == Init /\ [][Next]_vars

TypeOK ==
    /\ pc \in {"unready", "ready", "failed", "destroyed"}
    /\ conn \in {"unset", "open", "closed"}
    /\ cur \in {"unset", "open", "closed"}
    /\ tables \subseteq OtherTables \cup {collection_name}
    /\ DOMAIN rows \subseteq Ids
    /\ TableExists \/ rows = EmptyTable

(***************************************************************************)
(* Properties.                                                             *)
(***************************************************************************)
\* a step taken by a call on a constructed adapter (not __init__ / __del__)
CallStep == pc = "ready" /\ pc' = "ready"

ReturnedIds == {last.outList[i].id : i \in DOMAIN last.outList}

\* payload[k] == v for every filter entry, as Python compares them
PyMatches(filters, payload) ==
    filters = None \/
    \A k \in DOMAIN filters.items : k \in DOMAIN payload.items /\ payload.items[k] = filters.items[k]

\* C1: a successful insert([V], [P], [X]) followed directly by get(X) returns
\* the record (id X, score None, payload P)
InsertGetConsistency ==
    [][(/\ CallStep
        /\ last.op = "insert" /\ last.result = "ok" /\ Len(last.ids) = 1 /\ last.payload # None
        /\ last'.op = "get" /\ last'.id = last.ids[1])
       => (last'.result = "ok" /\ last'.outRec = OutputData(last.ids[1], None, last.payload))]_vars

InsertGetWitness ==
    /\ last.op = "get" /\ last.follows = "insert" /\ last.result = "ok"
    /\ last.outRec # None
    /\ last.outRec.payload # EmptyDict

\* C2: on an existing collection, get / update / delete of an id that is not
\* stored do not raise and change no record; get returns None, and a delete
\* repeated right after a delete of the same id succeeds affecting zero rows
UnknownIdSemantics ==
    [][/\ (CallStep /\ TableExists /\ last'.op \in {"get", "update", "delete"} /\ last'.id \notin DOMAIN rows)
          => (/\ last'.result = "ok"
              /\ rows' = rows /\ tables' = tables
              /\ last'.op = "get" => last'.outRec = None
              /\ last'.op = "delete" => last'.affected = 0)
       /\ (CallStep /\ last.op = "delete" /\ last.result = "ok" /\ last'.op = "delete" /\ last'.id = last.id)
          => (last'.result = "ok" /\ last'.affected = 0)]_vars

UnknownIdWitness ==
    /\ last.op = "delete" /\ last.follows = "delete"
    /\ last.result = "ok" /\ last.affected = 0
    /\ DOMAIN rows # {}

\* C3: search / list with filters and a limit at least the collection size
\* return exactly the stored records whose payload equals every filter entry
FilterExactness ==
    (/\ last.op \in {"search", "list"} /\ last.result = "ok"
     /\ last.filters # None
     /\ last.limit >= Cardinality(DOMAIN rows))
    => ReturnedIds = {x \in DOMAIN rows : PyMatches(last.filters, decode_payload(rows[x].payload))}

\* C4: search returns at most `limit` records in ascending distance, each
\* scored with its distance, and no omitted record that passes the filters
\* is strictly closer than a returned one
SearchOrderingAndBound ==
    (last.op = "search" /\ last.result = "ok")
    => LET out == last.outList
           q == json_dumps(last.vector)
       IN  /\ Len(out) <= last.limit
           /\ \A i \in DOMAIN out : out[i].id \in DOMAIN rows /\ out[i].score = Distance(rows, out[i].id, q)
           /\ \A i, j \in DOMAIN out : i < j => DistLeq(out[i].score, out[j].score)
           /\ \A x \in DOMAIN rows \ ReturnedIds :
                PyMatches(last.filters, decode_payload(rows[x].payload))
                => \A i \in DOMAIN out : ~DistLess(Distance(rows, x, q), out[i].score)

\* C5: after reset() the table exists with the same columns and no rows, so
\* list() returns nothing and get(X) is None for every id
ResetDestructiveness ==
    last.op = "reset"
    => /\ TableExists
       /\ columns = TableColumns
       /\ rows = EmptyTable
       /\ \A filters \in Filters :
            \A s \in InjSeqs(Selected(rows, filters), Cardinality(Selected(rows, filters))) :
                list_output(rows, Limit(s, MaxLimit)) = <<>>
       /\ \A x \in Ids : get_output(rows, x) = None

ResetWitness == last.op = "reset" /\ last.result = "ok" /\ last.before > 0

\* C6: an insert whose batch repeats a stored id, or an id of the same batch,
\* raises and leaves the collection exactly as it was, none of its rows stored
BatchAllOrNothing ==
    [][(/\ CallStep /\ TableExists
        /\ last'.op = "insert" /\ last'.ids # <<>>
        /\ \/ \E i \in DOMAIN last'.ids : last'.ids[i] \in DOMAIN rows
           \/ \E i, j \in DOMAIN last'.ids : i # j /\ last'.ids[i] = last'.ids[j])
       => (last'.result = "error" /\ rows' = rows)]_vars

PartialUpdate ==
    [][(CallStep /\ last'.op = "update")
       => /\ tables' = tables
          /\ DOMAIN rows' = DOMAIN rows
          /\ \A x \in DOMAIN rows : x # last'.id => rows'[x] = rows[x]
          /\ (TableExists /\ last'.id \in DOMAIN rows)
             => LET old == rows[last'.id]
                    new == rows'[last'.id]
                IN  /\ IF last'.vector # None THEN json_loads(new.vector) = last'.vector
                                              ELSE new.vector = old.vector
                    /\ IF last'.payload # None THEN json_loads(new.payload) = last'.payload
                                               ELSE new.payload = old.payload
          /\ (last'.vector = None /\ last'.payload = None)
             => (last'.stmts = 0 /\ last'.result = "ok" /\ rows' = rows)]_vars

PartialUpdateWitness ==
    /\ last.op = "update" /\ last.result = "ok"
    /\ last.vector # None /\ last.payload = None
    /\ last.affected = 1
    /\ rows[last.id].payload # json_dumps(EmptyDict)

LifecycleAlwaysReady ==
    /\ (last.op = "__init__" /\ last.result = "ok") => TableExists
    /\ last.op \in DataOps => last.ready

\* C10 amended: construction moves unready -> ready once, creating the table
\* only if absent and keeping the records of an existing one; afterwards
\* every call except delete_col keeps the table, and a data operation that
\* issues a statement after delete_col raises
LifecycleUnlessDropped ==
    /\ []((last.op = "__init__" /\ last.result = "ok") => (TableExists /\ pc \in {"ready", "destroyed"}))
    /\ []((last.op \in DataOps /\ ~last.ready /\ last.stmts > 0) => last.result = "error")
    /\ [][/\ (pc = "unready" /\ pc' = "ready") => (TableExists' /\ (TableExists => rows' = rows))
          /\ pc' = "unready" => pc = "unready"
          /\ pc' = "ready" => pc \in {"unready", "ready"}
          /\ (CallStep /\ TableExists /\ last'.op # "delete_col") => TableExists'
          /\ (CallStep /\ last'.op \in {"create_col", "reset"}) => TableExists'
          /\ (CallStep /\ last'.op \in DataOps /\ TableExists) => last'.ready]_vars

LifecycleWitness ==
    /\ last.op = "insert" /\ last.result = "ok" /\ last.ready
    /\ last.ids # <<>>
    /\ pc = "ready"

====
